---- MODULE Spec2Model ----
(***************************************************************************)
(* Model of FaceAnimator (src/animator.py) and from_trimesh                *)
(* (src/pyrender_mod.py): the construction (__init__), the receiving      *)
(* thread (_recv_message), the update loop of the main thread (start,      *)
(* _update_vertices, _update_pyrender) and the viewer thread that renders  *)
(* under render_lock.                                                      *)
(*                                                                         *)
(* Conventions.  Python text is a sequence of one-character strings.       *)
(* Python lists and arrays are sequences; At reads them with a zero-based  *)
(* index.  An optional value is a sequence of length at most one: <<>> is  *)
(* None (or an attribute that was never assigned), <<x>> is x.  Floats are *)
(* fixed-point integers, Unit standing for 1.0; the inputs are chosen so   *)
(* that every product and quotient of the computation is exact.            *)
(***************************************************************************)
EXTENDS Integers, Sequences, FiniteSets, TLC

(***************************************************************************)
(* Bounds of the model.                                                    *)
(***************************************************************************)
\* vertices of the mesh (self.vertices_num)
NumVertices == 3
\* expression channels of the basis (self.exp_num)
NumExp == 3
\* chunks of data the server sends before the model stops delivering
MaxRecv == 2

(***************************************************************************)
(* Numbers.                                                                *)
(***************************************************************************)
\* fixed-point representation of 1.0 (eye_delta = 0.01 is one hundredth)
Unit == 100
\* eye_delta=0.01, the default of _update_vertices
EyeDelta == Unit \div 100
\* the divisor of lines 105-107
Divisor == 80
\* the entries of coeff_raw that lines 105, 106, 107 read
Idx0 == 25
Idx1 == 13
Idx2 == 12

None == << >>
Some(x) == << x >>
At(s, i) == s[i + 1]

(***************************************************************************)
(* Text: str.split(',') and float().                                       *)
(***************************************************************************)
Digits == {"0", "1", "2", "3", "4", "5", "6", "7", "8", "9"}

DigitVal(c) ==
  CASE c = "0" -> 0 [] c = "1" -> 1 [] c = "2" -> 2 [] c = "3" -> 3
    [] c = "4" -> 4 [] c = "5" -> 5 [] c = "6" -> 6 [] c = "7" -> 7
    [] c = "8" -> 8 [] c = "9" -> 9

RECURSIVE SplitFrom(_, _, _, _)
\* text[i..] split on ",", cur being the token under construction
SplitFrom(text, i, cur, acc) ==
  IF i > Len(text) THEN Append(acc, cur)
  ELSE IF text[i] = "," THEN SplitFrom(text, i + 1, << >>, Append(acc, cur))
  ELSE SplitFrom(text, i + 1, Append(cur, text[i]), acc)

\* text.split(','): "" gives [""], "a,,b" gives ["a", "", "b"]
Split(text) == SplitFrom(text, 1, << >>, << >>)

RECURSIVE DigitsVal(_, _, _)
DigitsVal(tok, i, acc) ==
  IF i > Len(tok) THEN acc ELSE DigitsVal(tok, i + 1, 10 * acc + DigitVal(tok[i]))

\* float(tok) succeeds on the decimal literals of the model's alphabet:
\* an optional sign and at least one digit
IsFloat(tok) ==
  LET body == IF Len(tok) > 0 /\ tok[1] = "-" THEN Tail(tok) ELSE tok
  IN  Len(body) > 0 /\ \A k \in 1..Len(body) : body[k] \in Digits

\* float(tok) of a token that IsFloat, in fixed point
Float(tok) ==
  IF tok[1] = "-" THEN 0 - Unit * DigitsVal(Tail(tok), 1, 0)
  ELSE Unit * DigitsVal(tok, 1, 0)

\* [float(x) for x in text.split(',')]: None stands for the ValueError
FloatList(text) ==
  LET toks == Split(text)
  IN  IF \A k \in 1..Len(toks) : IsFloat(toks[k])
      THEN Some([k \in 1..Len(toks) |-> Float(toks[k])])
      ELSE None

(***************************************************************************)
(* The frames the server may send.                                         *)
(***************************************************************************)
RECURSIVE JoinFrom(_, _)
JoinFrom(toks, i) ==
  IF i > Len(toks) THEN << >>
  ELSE IF i = Len(toks) THEN toks[i]
  ELSE toks[i] \o <<",">> \o JoinFrom(toks, i + 1)

\* ",".join(toks)
Join(toks) == JoinFrom(toks, 1)

\* n tokens: a0, a1, a2 at the entries lines 105-107 read, fill elsewhere
FrameOf(n, a0, a1, a2, fill) ==
  Join([k \in 1..n |-> IF k = Idx0 + 1 THEN a0
                       ELSE IF k = Idx1 + 1 THEN a1
                       ELSE IF k = Idx2 + 1 THEN a2
                       ELSE fill])

T0 == <<"0">>
T80 == <<"8", "0">>
TNeg40 == <<"-", "4", "0">>
TBad == <<"x">>

FrameA == FrameOf(Idx0 + 1, T80, T80, T80, T0)
FrameC == FrameOf(Idx0 + 2, TNeg40, T0, T80, T80)
FrameZero == FrameOf(Idx0 + 1, T0, T0, T0, T80)
FrameShort == FrameOf(10, T80, T80, T80, T80)
FrameShort25 == FrameOf(Idx0, T80, T80, T80, T0)
FrameNonNum == FrameOf(Idx0 + 1, T80, TBad, T80, T0)

\* the chunks the server sends, by number; 0 numbers the empty text that
\* recvfrom returns once the peer has closed the stream
FrameTable ==
  <<FrameA, FrameC, FrameZero, FrameShort, FrameShort25, FrameNonNum>>
FrameIds == 1..Len(FrameTable)
Text(f) == IF f = 0 THEN << >> ELSE FrameTable[f]

\* at least 26 tokens, all of them numeric
WellFormed(text) ==
  /\ FloatList(text) # None
  /\ Len(FloatList(text)[1]) >= Idx0 + 1

WellFormedIds == {f \in FrameIds : WellFormed(Text(f))}

(***************************************************************************)
(* The model assets: what _init_base_model and _init_exp_bases can load.   *)
(***************************************************************************)
VertexIds == 0..(NumVertices - 1)

\* base_model.vertices (line 38): the scenario's zero mean, and a mean with
\* distinct coordinates at every vertex
MeanShapes ==
  << [i \in 1..NumVertices |-> <<0, 0, 0>>],
     [i \in 1..NumVertices |-> <<i * Unit, 2 * Unit, i - 3 * Unit>>] >>

\* base_model.vertex_normals (line 37)
NormalOf(shape) == [i \in 1..Len(shape) |-> <<0, 0, Unit>>]

\* np.load(exp_bases_path) (line 46), of shape (exp_num, vertices_num, 3):
\* unit rows (channel e moves axis e), and a dense basis
ExpBasesFiles ==
  << [e \in 1..NumExp |-> [i \in 1..NumVertices |->
        [k \in 1..3 |-> IF (e - 1) % 3 = k - 1 THEN Unit ELSE 0]]],
     [e \in 1..NumExp |-> [i \in 1..NumVertices |->
        <<e * Unit, 0 - i * Unit, (e + i) * Unit>>]] >>

\* the models considered: the zero mean with the unit rows, the other
\* mean with the dense basis
Models == 1..Len(MeanShapes)

\* np.reshape(exp_bases, (exp_num, -1)) (line 48): each channel flattened
ReshapeBases(b) ==
  [e \in 1..Len(b) |->
     [j \in 1..(3 * Len(b[e])) |-> b[e][((j - 1) \div 3) + 1][((j - 1) % 3) + 1]]]

\* np.loadtxt(eye_index_path, dtype=np.int32) (line 50).  loadtxt squeezes
\* its result: a file of one index gives a 0-d array (ndim 0), a file of
\* several gives a 1-d array, an empty file an empty 1-d array.
LoadTxt(idxs) == [ndim |-> IF Len(idxs) = 1 THEN 0 ELSE 1, data |-> idxs]

\* the eye index files of the model: empty, one index, two indices
EyeIndexFiles ==
  { << >>, <<0>>, <<NumVertices - 1, 0>> }

\* self.eye_index after _init_exp_bases (lines 49-52): None when the path
\* names no file
EyeIndexes == {None} \cup {Some(LoadTxt(f)) : f \in EyeIndexFiles}

(***************************************************************************)
(* The blend-shape computation of _update_vertices.                        *)
(***************************************************************************)
\* np.zeros(n)
Zeros(n) == [k \in 1..n |-> 0]

\* x / 80 (lines 105-107)
Scale(x) == x \div Divisor

RECURSIVE DotFrom(_, _, _, _)
DotFrom(c, bases, j, e) ==
  IF e > Len(c) THEN 0
  ELSE ((c[e] * bases[e][j]) \div Unit) + DotFrom(c, bases, j, e + 1)

\* coeff @ exp_bases: a vector of 3 * vertices_num entries
MatVec(c, bases) == [j \in 1..Len(bases[1]) |-> DotFrom(c, bases, j, 1)]

\* (coeff @ exp_bases).reshape(vertices_num, 3) + mean_shape (line 112)
Blend(c, bases, mean, n) ==
  LET flat == MatVec(c, bases)
  IN  [i \in 1..n |-> [k \in 1..3 |-> flat[3 * (i - 1) + k] + mean[i][k]]]

\* lines 115-116 for one idx: v[idx] = mean_shape[idx]; v[idx][2] -= eye_delta
EyeFix(v, mean, idx, delta) ==
  [v EXCEPT ![idx + 1] = [At(mean, idx) EXCEPT ![3] = At(mean, idx)[3] - delta]]

RECURSIVE EyeLoop(_, _, _, _, _)
\* for idx in eye_index (lines 114-116), over a 1-d array
EyeLoop(v, mean, idxs, k, delta) ==
  IF k > Len(idxs) THEN v
  ELSE EyeLoop(EyeFix(v, mean, idxs[k], delta), mean, idxs, k + 1, delta)

\* lines 112-119 once coeff is set: the value _update_vertices returns.
\* eye_index None: the function falls off its end and returns None.
\* eye_index 0-d: iterating it raises TypeError and line 119 returns
\* mean_shape.
BlendAndEye(c, bases, mean, n, eye, delta) ==
  LET v == Blend(c, bases, mean, n)
  IN  IF eye = None THEN None
      ELSE IF eye[1].ndim = 0 THEN Some(mean)
      ELSE Some(EyeLoop(v, mean, eye[1].data, 1, delta))

\* what lines 112-116 leave in the array v they write
ArrayV(c, bases, mean, n, eye, delta) ==
  LET v == Blend(c, bases, mean, n)
  IN  IF eye = None \/ eye[1].ndim = 0 THEN v
      ELSE EyeLoop(v, mean, eye[1].data, 1, delta)

\* a line 112 that adds into the array of self.mean_shape
SumInPlace == "mean_shape"

\* line 112: the array the sum is written into, a new one, which lines
\* 115-116 then write
SumArray == "v"

\* a from_trimesh that keeps the array of the mesh
PositionsShared(m_vertices) == m_vertices

\* pyrender_mod.py line 51: m.vertices.copy(), a new array
PositionsCopy(m_vertices) == "pos"

\* an array made in a cycle, once that cycle is over
Aged(t) == IF t = "v" THEN "v_prev" ELSE IF t = "pos" THEN "pos_prev" ELSE t

(***************************************************************************)
(* State.                                                                  *)
(***************************************************************************)
VARIABLES
  eye_index_path, \* the argument eye_index_path of __init__: None (its
                  \* default), or a path naming a file or no file
  connects,       \* calls of tcp_client.connect so far
  diag,           \* the diagnostic printed before exit(), "" if none
  mean_shape,     \* self.mean_shape
  normal,         \* self.normal, the static normals
  exp_bases,      \* self.exp_bases, reshaped to (exp_num, 3 * vertices_num)
  eye_index,      \* self.eye_index: None, or the array loadtxt returned
  conn,           \* the TCP connection: "none" (not connected yet), "failed"
                  \* (connect raised), "open", "eof" (the peer closed it),
                  \* "error" (it broke), "closed" (tcp_client.close())
  sent,           \* chunks the server has delivered so far
  feed_pc,        \* the client thread: "not_started", "recv" (in recvfrom)
                  \* or "exited"
  lost_reports,   \* times line 96 printed "Lose Connection"
  raw_data,       \* self.raw_data: None until line 93 first assigns it
  pc,             \* position of the main thread in __init__ and start()
  coeff_raw,      \* self.coeff_raw: None until line 103 first assigns it
  coeff,          \* the local coeff of _update_vertices
  vertices,       \* the local vertices of start(): what _update_vertices returned
  mesh,           \* self.mesh.vertices, the working mesh
  mesh_tmp,       \* the local mesh_tmp of _update_pyrender
  node_buf,       \* self.node_buf
  scene,          \* the mesh nodes of self.scene
  render_lock,    \* self.view.render_lock: "free", or the thread holding it
  is_active,      \* self.view.is_active
  exc,            \* the exception that ended the main thread, "" if none
  closed_reports, \* times line 137 printed "Client closed"
  latest,         \* history: number of the chunk the client thread decoded last
  last_good,      \* history: number of the last well-formed chunk it decoded
  had_bad,        \* history: it decoded a chunk that is text but not a
                  \* well-formed frame (short or not numeric)
  obj,            \* history: which array each place refers to (two places
                  \* with the same name share one array), fields vertices,
                  \* mesh, mesh_tmp, node_buf and scene (a set)
  cycle           \* history of the running cycle: what was the latest
                  \* chunk, how many had been sent and whether the
                  \* connection was lost when line 103 read raw_data

startup == <<eye_index_path, connects, diag>>
config == <<mean_shape, normal, exp_bases, eye_index>>
feed == <<conn, sent, feed_pc, lost_reports, raw_data, latest, last_good,
          had_bad>>
main == <<pc, coeff_raw, coeff, vertices, mesh, mesh_tmp, node_buf, scene,
          exc, closed_reports, obj, cycle>>
vars == <<startup, config, feed, main, render_lock, is_active>>

exp_num == Len(exp_bases)
vertices_num == Len(exp_bases[1]) \div 3

\* pyrender.Node(mesh=m, matrix=np.eye(4))
Node(m) == [mesh |-> m]

\* from_trimesh with smooth=True (pyrender_mod.py lines 50-53): the primitive
\* gets a copy of the vertices and the normals it was given
from_trimesh(m_vertices, n) == [positions |-> m_vertices, normals |-> n]

(***************************************************************************)
(* __init__ (lines 25-29).  The initial state is the one before line 25:   *)
(* mean_shape, normal and exp_bases already hold what the asset files      *)
(* contain (nothing reads them before lines 37, 38 and 48 assign them).    *)
(***************************************************************************)
\* no cycle is running, or the running one has not read raw_data yet
NoCycle == [frame |-> None, sent |-> 0, after_loss |-> FALSE, read |-> FALSE]

\* self.node_buf before line 69 assigns it
NoNode == [mesh |-> [positions |-> << >>, normals |-> << >>]]

\* the values of eye_index_path: the default None, a path that names no
\* file, a path to each of the eye index files
EyeIndexPaths ==
  {None} \cup {Some([exists |-> FALSE, idxs |-> << >>])}
         \cup {Some([exists |-> TRUE, idxs |-> f]) : f \in EyeIndexFiles}

\* no place refers to an array yet
NoObjects == [vertices |-> "none", mesh |-> "none", mesh_tmp |-> "none",
              node_buf |-> "none", scene |-> {}]

Init ==
  /\ eye_index_path \in EyeIndexPaths
  /\ connects = 0
  /\ diag = ""
  /\ \E m \in Models :
       /\ mean_shape = MeanShapes[m]
       /\ exp_bases = ReshapeBases(ExpBasesFiles[m])
  /\ normal = NormalOf(mean_shape)
  /\ eye_index = None
  /\ conn = "none"
  /\ sent = 0
  /\ feed_pc = "not_started"
  /\ lost_reports = 0
  /\ raw_data = None
  /\ pc = "init_base_model"
  /\ coeff_raw = None
  /\ coeff = None
  /\ vertices = None
  /\ mesh = None
  /\ mesh_tmp = None
  /\ node_buf = NoNode
  /\ scene = << >>
  /\ render_lock = "free"
  /\ is_active = FALSE
  /\ exc = ""
  /\ closed_reports = 0
  /\ latest = None
  /\ last_good = None
  /\ had_bad = FALSE
  /\ obj = NoObjects
  /\ cycle = NoCycle

\* lines 31-43: the mean shape, its normals and the texture are loaded, or
\* base_model_path names no file: the diagnostic is printed and exit() ends
\* the process
init_base_model ==
  /\ pc = "init_base_model"
  /\ \/ pc' = "init_exp_bases" /\ UNCHANGED diag
     \/ pc' = "exited" /\ diag' = "base_model_path"
  /\ UNCHANGED <<eye_index_path, connects, config, feed, render_lock,
                 is_active, coeff_raw, coeff, vertices, mesh, mesh_tmp,
                 node_buf, scene, exc, closed_reports, cycle,
                 obj>>

\* lines 45-52: os.path.isfile(None) raises TypeError, which nothing
\* catches; a path that names no file leaves eye_index None
init_exp_bases ==
  /\ pc = "init_exp_bases"
  /\ IF eye_index_path = None
     THEN /\ exc' = "init_exp_bases"
          /\ pc' = "init_raised"
          /\ UNCHANGED eye_index
     ELSE /\ eye_index' = IF eye_index_path[1].exists
                          THEN Some(LoadTxt(eye_index_path[1].idxs))
                          ELSE None
          /\ pc' = "init_viewer"
          /\ UNCHANGED exc
  /\ UNCHANGED <<startup, mean_shape, normal, exp_bases, feed, render_lock,
                 is_active, coeff_raw, coeff, vertices, mesh, mesh_tmp,
                 node_buf, scene, closed_reports, cycle,
                 obj>>

\* lines 56-60: the scene is created and the viewer starts rendering it in
\* its own thread
init_pyrender_viewer ==
  /\ pc = "init_viewer"
  /\ is_active' = TRUE
  /\ pc' = "init_scene"
  /\ UNCHANGED <<startup, config, feed, render_lock, coeff_raw, coeff,
                 vertices, mesh, mesh_tmp, node_buf, scene, exc,
                 closed_reports, cycle,
                 obj>>

\* lines 61-70: the lights, the working mesh (a deep copy of the base
\* model) and the node of the base model, added without render_lock
init_pyrender_scene ==
  /\ pc = "init_scene"
  /\ mesh' = Some(mean_shape)
  /\ node_buf' = Node(from_trimesh(mean_shape, normal))
  /\ scene' = Append(scene, node_buf')
  /\ obj' = [obj EXCEPT !.mesh = "mesh0", !.node_buf = "pos_prev",
                        !.scene = {"pos_prev"}]
  /\ pc' = "init_socket"
  /\ UNCHANGED <<startup, config, feed, render_lock, is_active, coeff_raw,
                 coeff, vertices, mesh_tmp, exc, closed_reports, cycle>>

\* a viewer that is left as it was
ViewLeftOpen(active) == active

\* line 80: self.view.close()
ViewClosed(active) == FALSE

\* lines 72-82: the one call of connect succeeds, or it raises: the
\* diagnostic is printed, the viewer is closed and exit() ends the process
init_socket ==
  /\ pc = "init_socket"
  /\ connects' = connects + 1
  /\ \/ /\ conn' = "open"
        /\ pc' = "init_client_thread"
        /\ UNCHANGED <<diag, is_active>>
     \/ /\ conn' = "failed"
        /\ diag' = "connect"
        /\ is_active' = ViewClosed(is_active)
        /\ pc' = "exited"
  /\ UNCHANGED <<eye_index_path, config, sent, feed_pc, lost_reports,
                 raw_data, latest, last_good, had_bad, render_lock, coeff_raw, coeff,
                 vertices, mesh, mesh_tmp, node_buf, scene, exc,
                 closed_reports, cycle,
                 obj>>

\* lines 84-87: the client thread is started
init_client_thread ==
  /\ pc = "init_client_thread"
  /\ feed_pc' = "recv"
  /\ pc' = "while"
  /\ UNCHANGED <<startup, config, conn, sent, lost_reports, raw_data, latest,
                 last_good, had_bad, render_lock, is_active, coeff_raw, coeff,
                 vertices, mesh, mesh_tmp, node_buf, scene, exc,
                 closed_reports, cycle,
                 obj>>

InitStep ==
  \/ init_base_model
  \/ init_exp_bases
  \/ init_pyrender_viewer
  \/ init_pyrender_scene
  \/ init_socket
  \/ init_client_thread

(***************************************************************************)
(* The server and the network.                                             *)
(***************************************************************************)
\* the peer closes the stream: recvfrom returns b'' from now on
peer_close ==
  /\ conn = "open"
  /\ conn' = "eof"
  /\ UNCHANGED <<startup, config, main, render_lock, is_active, sent, feed_pc,
                 lost_reports, raw_data, latest, last_good, had_bad>>

\* the connection breaks: recvfrom raises from now on
peer_reset ==
  /\ conn = "open"
  /\ conn' = "error"
  /\ UNCHANGED <<startup, config, main, render_lock, is_active, sent, feed_pc,
                 lost_reports, raw_data, latest, last_good, had_bad>>

(***************************************************************************)
(* _recv_message (lines 89-96), one action per outcome of recvfrom.        *)
(***************************************************************************)
\* line 93: self.raw_data = data.decode()
Publish(old, text) == Some(text)

\* lines 92-94: a chunk arrives, is decoded and published
recv_message_data ==
  /\ feed_pc = "recv"
  /\ conn = "open"
  /\ sent < MaxRecv
  /\ \E f \in FrameIds :
       /\ raw_data' = Publish(raw_data, Text(f))
       /\ latest' = Some(f)
       /\ last_good' = IF f \in WellFormedIds THEN Some(f) ELSE last_good
       /\ had_bad' = (had_bad \/ f \notin WellFormedIds)
  /\ sent' = sent + 1
  /\ UNCHANGED <<startup, config, main, render_lock, is_active, conn, feed_pc, lost_reports>>

\* lines 92-94 after the peer closed: recvfrom returns (b'', None) without
\* raising, and the loop publishes the empty text and goes on
recv_message_eof ==
  /\ feed_pc = "recv"
  /\ conn = "eof"
  /\ raw_data' = Publish(raw_data, Text(0))
  /\ latest' = Some(0)
  /\ UNCHANGED <<startup, config, main, render_lock, is_active, conn, sent, feed_pc,
                 lost_reports, last_good, had_bad>>

\* lines 92, 95-96: recvfrom raises (broken connection, closed socket); the
\* handler reports and the thread ends
recv_message_error ==
  /\ feed_pc = "recv"
  /\ conn \in {"error", "closed"}
  /\ lost_reports' = lost_reports + 1
  /\ feed_pc' = "exited"
  /\ UNCHANGED <<startup, config, main, render_lock, is_active, conn, sent, raw_data,
                 latest, last_good, had_bad>>

\* lines 92-93, 95-96: a chunk that is not UTF-8 arrives; data.decode()
\* raises inside the same try, the handler reports and the thread ends
recv_message_undecodable ==
  /\ feed_pc = "recv"
  /\ conn = "open"
  /\ sent < MaxRecv
  /\ sent' = sent + 1
  /\ lost_reports' = lost_reports + 1
  /\ feed_pc' = "exited"
  /\ UNCHANGED <<startup, config, main, render_lock, is_active, conn, raw_data,
                 latest, last_good, had_bad>>

(***************************************************************************)
(* start() (lines 132-137) and the two functions its loop calls, one       *)
(* action per statement that reads or writes state another thread shares.  *)
(***************************************************************************)
\* line 133: while self.view.is_active
start_while ==
  /\ pc = "while"
  /\ pc' = IF is_active THEN "parse" ELSE "close"
  /\ UNCHANGED <<startup, config, feed, render_lock, is_active, coeff_raw, coeff,
                 vertices, mesh, mesh_tmp, node_buf, scene, exc,
                 closed_reports, cycle,
                 obj>>

\* a handler that swallows the exception and returns nothing
ReturnNothing ==
  /\ vertices' = None
  /\ obj' = [obj EXCEPT !.vertices = "none"]
  /\ pc' = "set_vertices"

\* lines 118-119: except Exception: return self.mean_shape
ReturnMeanShape ==
  /\ vertices' = Some(mean_shape)
  /\ obj' = [obj EXCEPT !.vertices = "mean_shape"]
  /\ pc' = "set_vertices"

\* a line 103 that waits until the client thread has published a frame
update_vertices_parse_wait ==
  /\ pc = "parse"
  /\ raw_data # None
  /\ cycle' = [frame |-> latest, sent |-> sent, after_loss |-> conn # "open",
               read |-> TRUE]
  /\ IF FloatList(raw_data[1]) = None
     THEN ReturnMeanShape /\ UNCHANGED <<coeff_raw, coeff>>
     ELSE /\ coeff_raw' = FloatList(raw_data[1])
          /\ pc' = "coeff0"
          /\ UNCHANGED <<coeff, vertices, obj>>
  /\ UNCHANGED <<startup, config, feed, render_lock, is_active, mesh,
                 mesh_tmp, node_buf, scene, exc, closed_reports>>

\* line 103: self.coeff_raw = np.array([float(x) for x in self.raw_data.split(',')])
\* raw_data never assigned raises AttributeError, a token that is no number
\* raises ValueError
update_vertices_parse ==
  /\ pc = "parse"
  /\ cycle' = [frame |-> latest, sent |-> sent, after_loss |-> conn # "open",
               read |-> TRUE]
  /\ IF raw_data = None \/ FloatList(raw_data[1]) = None
     THEN ReturnMeanShape /\ UNCHANGED <<coeff_raw, coeff>>
     ELSE /\ coeff_raw' = FloatList(raw_data[1])
          /\ pc' = "coeff0"
          /\ UNCHANGED <<coeff, vertices, obj>>
  /\ UNCHANGED <<startup, config, feed, render_lock, is_active, mesh, mesh_tmp,
                 node_buf, scene, exc, closed_reports>>

\* c[ch] = raw[idx] / 80: None stands for the IndexError of either index
SetCoeff(c, ch, raw, idx) ==
  IF idx < Len(raw) /\ ch < Len(c)
  THEN Some([c EXCEPT ![ch + 1] = Scale(At(raw, idx))])
  ELSE None

\* one of lines 105-107, from position here to position next
CoeffStep(here, next, c, ch, raw, idx) ==
  /\ pc = here
  /\ IF SetCoeff(c, ch, raw, idx) = None
     THEN ReturnMeanShape /\ UNCHANGED coeff
     ELSE /\ coeff' = SetCoeff(c, ch, raw, idx)
          /\ pc' = next
          /\ UNCHANGED <<vertices, obj>>
  /\ UNCHANGED <<startup, config, feed, render_lock, is_active, coeff_raw, mesh,
                 mesh_tmp, node_buf, scene, exc, closed_reports, cycle>>

\* lines 104-105: coeff = np.zeros(self.exp_num); coeff[0] = self.coeff_raw[25]/80
update_vertices_coeff0 ==
  CoeffStep("coeff0", "coeff1", Zeros(exp_num), 0, coeff_raw[1], Idx0)

\* line 106 reading entry 13 from a fresh parse of self.raw_data instead of
\* self.coeff_raw
update_vertices_coeff1_reread ==
  CoeffStep("coeff1", "coeff2", coeff[1], 1,
            IF FloatList(raw_data[1]) = None THEN coeff_raw[1]
            ELSE FloatList(raw_data[1])[1],
            Idx1)

\* line 106: coeff[1] = self.coeff_raw[13]/80
update_vertices_coeff1 ==
  CoeffStep("coeff1", "coeff2", coeff[1], 1, coeff_raw[1], Idx1)

\* line 107: coeff[2] = self.coeff_raw[12]/80
update_vertices_coeff2 ==
  CoeffStep("coeff2", "blend", coeff[1], 2, coeff_raw[1], Idx2)

\* lines 112-119 (eye_delta at its default): the blend, the eye loop and
\* the return
update_vertices_blend ==
  /\ pc = "blend"
  /\ vertices' = BlendAndEye(coeff[1], exp_bases, mean_shape, vertices_num,
                             eye_index, EyeDelta)
  /\ obj' = [obj EXCEPT !.vertices =
                IF eye_index = None THEN "none"
                ELSE IF eye_index[1].ndim = 0 THEN "mean_shape"
                ELSE SumArray]
  /\ mean_shape' = IF SumArray = "mean_shape"
                   THEN ArrayV(coeff[1], exp_bases, mean_shape, vertices_num,
                               eye_index, EyeDelta)
                   ELSE mean_shape
  /\ pc' = "set_vertices"
  /\ UNCHANGED <<startup, normal, exp_bases, eye_index, feed, render_lock,
                 is_active, coeff_raw, coeff, mesh, mesh_tmp, node_buf,
                 scene, exc, closed_reports, cycle>>

\* line 122: self.mesh.vertices = vertices (None leaves the mesh without
\* vertices)
update_pyrender_set_vertices ==
  /\ pc = "set_vertices"
  /\ mesh' = vertices
  /\ obj' = [obj EXCEPT !.mesh = obj.vertices]
  /\ pc' = "from_trimesh"
  /\ UNCHANGED <<startup, config, feed, render_lock, is_active, coeff_raw, coeff,
                 vertices, mesh_tmp, node_buf, scene, exc, closed_reports,
                 cycle>>

\* line 123: mesh_tmp = from_trimesh(self.mesh, self.normal, material=self.mat)
\* A mesh without vertices cannot carry the vertices_num static normals:
\* building the primitive raises, nothing in start() catches it and the
\* main thread ends.
update_pyrender_from_trimesh ==
  /\ pc = "from_trimesh"
  /\ IF mesh = None
     THEN /\ exc' = "from_trimesh"
          /\ pc' = "crashed"
          /\ UNCHANGED <<mesh_tmp, obj>>
     ELSE /\ mesh_tmp' = Some(from_trimesh(mesh[1], normal))
          /\ obj' = [obj EXCEPT !.mesh_tmp = PositionsCopy(obj.mesh)]
          /\ pc' = "acquire"
          /\ UNCHANGED exc
  /\ UNCHANGED <<startup, config, feed, render_lock, is_active, coeff_raw, coeff,
                 vertices, mesh, node_buf, scene, closed_reports, cycle>>

\* a _update_pyrender that goes on to line 125 without render_lock
update_pyrender_no_acquire ==
  /\ pc = "acquire"
  /\ pc' = "remove_node"
  /\ UNCHANGED <<startup, config, feed, render_lock, is_active, coeff_raw,
                 coeff, vertices, mesh, mesh_tmp, node_buf, scene, exc,
                 closed_reports, cycle,
                 obj>>

\* line 124: self.view.render_lock.acquire()
update_pyrender_acquire ==
  /\ pc = "acquire"
  /\ render_lock = "free"
  /\ render_lock' = "main"
  /\ pc' = "remove_node"
  /\ UNCHANGED <<startup, config, feed, is_active, coeff_raw, coeff, vertices, mesh,
                 mesh_tmp, node_buf, scene, exc, closed_reports, cycle,
                 obj>>

\* a remove_node that leaves the scene as it is
KeepNode(sc, n) == sc

\* scene.remove_node(n): the scene without (one occurrence of) n
RemoveNode(sc, n) ==
  LET hits == {k \in 1..Len(sc) : sc[k] = n}
      first == CHOOSE k \in hits : \A j \in hits : k <= j
  IN  IF hits = {} THEN sc
      ELSE [k \in 1..(Len(sc) - 1) |-> IF k < first THEN sc[k] ELSE sc[k + 1]]

\* line 125: self.scene.remove_node(self.node_buf)
update_pyrender_remove_node ==
  /\ pc = "remove_node"
  /\ scene' = RemoveNode(scene, node_buf)
  /\ obj' = [obj EXCEPT !.scene = IF scene' = scene THEN @
                                  ELSE @ \ {obj.node_buf}]
  /\ pc' = "new_node"
  /\ UNCHANGED <<startup, config, feed, render_lock, is_active, coeff_raw, coeff,
                 vertices, mesh, mesh_tmp, node_buf, exc, closed_reports,
                 cycle>>

\* line 126: self.node_buf = pyrender.Node(mesh=mesh_tmp, matrix=np.eye(4))
update_pyrender_new_node ==
  /\ pc = "new_node"
  /\ node_buf' = Node(mesh_tmp[1])
  /\ obj' = [obj EXCEPT !.node_buf = obj.mesh_tmp]
  /\ pc' = "add_node"
  /\ UNCHANGED <<startup, config, feed, render_lock, is_active, coeff_raw, coeff,
                 vertices, mesh, mesh_tmp, scene, exc, closed_reports,
                 cycle>>

\* line 127: self.scene.add_node(self.node_buf)
update_pyrender_add_node ==
  /\ pc = "add_node"
  /\ scene' = Append(scene, node_buf)
  /\ obj' = [obj EXCEPT !.scene = @ \cup {obj.node_buf}]
  /\ pc' = "release"
  /\ UNCHANGED <<startup, config, feed, render_lock, is_active, coeff_raw, coeff,
                 vertices, mesh, mesh_tmp, node_buf, exc, closed_reports,
                 cycle>>

\* what line 128 leaves in the lock
Released(lock) == "free"

\* line 128: self.view.render_lock.release(), and the return to line 133
\* (the locals coeff and mesh_tmp of the two calls are gone)
update_pyrender_release ==
  /\ pc = "release"
  /\ render_lock' = Released(render_lock)
  /\ mesh_tmp' = None
  /\ obj' = [vertices |-> Aged(obj.vertices), mesh |-> Aged(obj.mesh),
             mesh_tmp |-> "none", node_buf |-> Aged(obj.node_buf),
             scene |-> {Aged(t) : t \in obj.scene}]
  /\ coeff' = None
  /\ cycle' = NoCycle
  /\ pc' = "while"
  /\ UNCHANGED <<startup, config, feed, is_active, coeff_raw, vertices, mesh,
                 node_buf, scene, exc, closed_reports>>

\* lines 125-127 are not inside a try: when one of the three calls raises
\* (an exception of the library, MemoryError, KeyboardInterrupt), the
\* exception leaves _update_pyrender and start(), line 128 is never run
update_pyrender_raise ==
  /\ pc \in {"remove_node", "new_node", "add_node"}
  /\ exc' = pc
  /\ pc' = "crashed"
  /\ UNCHANGED <<startup, config, feed, render_lock, is_active, coeff_raw, coeff,
                 vertices, mesh, mesh_tmp, node_buf, scene, closed_reports,
                 cycle,
                 obj>>

\* line 136: self.tcp_client.close()
start_close ==
  /\ pc = "close"
  /\ conn' = "closed"
  /\ pc' = "report"
  /\ UNCHANGED <<startup, config, render_lock, is_active, sent, feed_pc, lost_reports,
                 raw_data, latest, last_good, had_bad, coeff_raw, coeff, vertices, mesh,
                 mesh_tmp, node_buf, scene, exc, closed_reports, cycle,
                 obj>>

\* line 137: print("[Face Animation Client] Client closed")
start_report ==
  /\ pc = "report"
  /\ closed_reports' = closed_reports + 1
  /\ pc' = "done"
  /\ UNCHANGED <<startup, config, feed, render_lock, is_active, coeff_raw, coeff,
                 vertices, mesh, mesh_tmp, node_buf, scene, exc, cycle,
                 obj>>

(***************************************************************************)
(* The viewer thread of pyrender (run_in_thread=True, line 60).            *)
(***************************************************************************)
\* the viewer takes render_lock to draw a frame
viewer_acquire ==
  /\ is_active
  /\ render_lock = "free"
  /\ render_lock' = "viewer"
  /\ UNCHANGED <<startup, config, feed, main, is_active>>

\* the viewer has drawn the scene and releases render_lock
viewer_release ==
  /\ render_lock = "viewer"
  /\ render_lock' = "free"
  /\ UNCHANGED <<startup, config, feed, main, is_active>>

\* the window is closed: is_active becomes False and stays so
viewer_close ==
  /\ is_active
  /\ render_lock # "viewer"
  /\ is_active' = FALSE
  /\ UNCHANGED <<startup, config, feed, main, render_lock>>

MainStep ==
  \/ start_while
  \/ update_vertices_parse
  \/ update_vertices_coeff0
  \/ update_vertices_coeff1
  \/ update_vertices_coeff2
  \/ update_vertices_blend
  \/ update_pyrender_set_vertices
  \/ update_pyrender_from_trimesh
  \/ update_pyrender_acquire
  \/ update_pyrender_remove_node
  \/ update_pyrender_new_node
  \/ update_pyrender_add_node
  \/ update_pyrender_release
  \/ start_close
  \/ start_report

FeedStep ==
  \/ recv_message_data
  \/ recv_message_eof
  \/ recv_message_error
  \/ recv_message_undecodable

ViewerStep ==
  \/ viewer_acquire
  \/ viewer_release
  \/ viewer_close

Next ==
  \/ InitStep
  \/ MainStep
  \/ update_pyrender_raise
  \/ FeedStep
  \/ ViewerStep
  \/ peer_close
  \/ peer_reset

Spec == Init /\ [][Next]_vars

\* the runs in which none of the calls of lines 125-127 raises
NextNoRaise ==
  \/ InitStep
  \/ MainStep
  \/ FeedStep
  \/ ViewerStep
  \/ peer_close
  \/ peer_reset

NoRaiseSpec == Init /\ [][NextNoRaise]_vars

(***************************************************************************)
(* Reference values of the properties.                                     *)
(***************************************************************************)
\* _update_vertices run from its first line to its return on the raw_data rd,
\* with no other thread in between
UpdateVerticesOf(rd) ==
  IF rd = None \/ FloatList(rd[1]) = None THEN Some(mean_shape)
  ELSE LET raw == FloatList(rd[1])[1]
           c0 == SetCoeff(Zeros(exp_num), 0, raw, Idx0)
           c1 == SetCoeff(c0[1], 1, raw, Idx1)
           c2 == SetCoeff(c1[1], 2, raw, Idx2)
       IN  IF c0 = None \/ c1 = None \/ c2 = None THEN Some(mean_shape)
           ELSE BlendAndEye(c2[1], exp_bases, mean_shape, vertices_num,
                            eye_index, EyeDelta)

\* the CoeffVector of a well-formed frame: channels 0, 1, 2 are the entries
\* 25, 13, 12 over 80, every other channel is 0
CoeffVector(text) ==
  LET raw == FloatList(text)[1]
  IN  [e \in 1..NumExp |->
         IF e = 1 THEN At(raw, 25) \div 80
         ELSE IF e = 2 THEN At(raw, 13) \div 80
         ELSE IF e = 3 THEN At(raw, 12) \div 80
         ELSE 0]

\* the vertex indices of the EyeIndexSet (empty when it is absent)
EyeIndexSet ==
  IF eye_index = None THEN {}
  ELSE {eye_index[1].data[k] : k \in 1..Len(eye_index[1].data)}

\* _update_vertices has just returned to start()
Returned == pc = "set_vertices"

\* the running cycle read a frame at line 103
CycleRead == cycle.read /\ cycle.frame # None

\* the frame the running cycle read is well-formed
CycleWellFormed == CycleRead /\ cycle.frame[1] \in WellFormedIds

(***************************************************************************)
(* C1: for a well-formed frame of at least 26 values, with the             *)
(* EyeIndexSet present or absent, _update_vertices returns an array of      *)
(* exactly vertices_num vertices, never None.                              *)
(***************************************************************************)
C1_ReturnsVertices ==
  (Returned /\ CycleWellFormed) =>
    (vertices # None /\ Len(vertices[1]) = vertices_num)

(***************************************************************************)
(* C2: once the connection is lost after a well-formed frame, every cycle  *)
(* that reads raw_data from then on returns the vertices of the last       *)
(* well-formed frame.  Stated for the runs in which no malformed frame     *)
(* followed that frame (latest is that frame, or the empty text of the     *)
(* closed stream).                                                         *)
(***************************************************************************)
C2_FrozenOnLastValid ==
  (/\ Returned
   /\ cycle.after_loss
   /\ last_good # None
   /\ latest \in {last_good, Some(0)}
   /\ eye_index # None)
  => vertices = UpdateVerticesOf(Some(Text(last_good[1])))

(***************************************************************************)
(* C3: once the connection has failed (the peer closed it, or it broke),   *)
(* the only step the client thread takes is the one that reports the loss  *)
(* once and ends the thread, publishing nothing; and an ended thread stays *)
(* ended.                                                                  *)
(***************************************************************************)
FeedMoves ==
  /\ feed_pc # "not_started"
  /\ \/ feed_pc' # feed_pc
     \/ raw_data' # raw_data
     \/ latest' # latest
     \/ lost_reports' # lost_reports

C3_FeedTerminatesOnFailure ==
  [][/\ (conn \in {"eof", "error"} /\ FeedMoves) =>
          (/\ feed_pc' = "exited"
           /\ lost_reports' = lost_reports + 1
           /\ lost_reports' = 1
           /\ raw_data' = raw_data)
     /\ (feed_pc = "exited") => ~FeedMoves]_vars

(***************************************************************************)
(* C4: outside the statements between acquire and release, the main thread *)
(* never holds render_lock, whether _update_pyrender returned or one of    *)
(* the calls between the two raised.                                       *)
(***************************************************************************)
C4_LockReleased ==
  (pc \notin {"remove_node", "new_node", "add_node", "release"}) =>
    render_lock # "main"

(***************************************************************************)
(* C5: a frame of fewer than 26 tokens, or with a token that is no number  *)
(* (the empty text included), makes _update_vertices return exactly the    *)
(* mean shape, without raising.                                            *)
(***************************************************************************)
C5_MalformedGivesMeanShape ==
  (CycleRead /\ ~CycleWellFormed) =>
    /\ pc \notin {"coeff1", "coeff2", "blend"}
    /\ (pc # "coeff0") => (vertices = Some(mean_shape) /\ exc # "from_trimesh")

\* a cycle has returned the mean shape for a short or non-numeric frame
\* although the model has eye vertices to correct
C5_Witness ==
  /\ Returned
  /\ CycleRead /\ ~CycleWellFormed
  /\ cycle.frame[1] # 0
  /\ EyeIndexSet # {}
  /\ vertices = Some(mean_shape)

(***************************************************************************)
(* C6: latest wins.  The coefficients a cycle has computed when it reaches *)
(* line 112 are entries 25, 13, 12 of the one chunk that was the latest    *)
(* decoded when the cycle read raw_data, whatever was published before or  *)
(* is published during the cycle.                                          *)
(***************************************************************************)
C6_LatestWins ==
  (pc = "blend") =>
    /\ CycleWellFormed
    /\ coeff = Some(CoeffVector(Text(cycle.frame[1])))

\* the first cycle read raw_data after two chunks had been published, and a
\* cycle computed its coefficients while a newer chunk was published
C6_Witness ==
  /\ pc = "blend"
  /\ cycle.sent >= 2
  /\ vertices = None

(***************************************************************************)
(* C7: no frame content and no state of the connection ends the loop:     *)
(* with no exception raised by the scene calls, the main thread leaves the *)
(* loop only when it saw the renderer inactive, never by an exception.     *)
(***************************************************************************)
C7_LoopSurvivesDecoding ==
  (pc \in {"close", "report", "done", "crashed"}) =>
    (pc # "crashed" /\ ~is_active)

(***************************************************************************)
(* C8: for a well-formed frame and a present EyeIndexSet, every vertex of  *)
(* the set is returned as the mean shape's vertex with its third           *)
(* coordinate reduced by eye_delta.                                        *)
(***************************************************************************)
C8_EyeCorrection ==
  (Returned /\ CycleWellFormed /\ eye_index # None) =>
    /\ vertices # None
    /\ \A idx \in EyeIndexSet :
         At(vertices[1], idx) =
           [At(mean_shape, idx) EXCEPT ![3] = At(mean_shape, idx)[3] - EyeDelta]

(***************************************************************************)
(* C9: for a well-formed frame, every vertex outside the EyeIndexSet is    *)
(* returned as the mean shape plus the combination of the basis rows with  *)
(* the CoeffVector of the frame.                                           *)
(***************************************************************************)
C9_LinearBlend ==
  (Returned /\ CycleWellFormed) =>
    /\ vertices # None
    /\ \A i \in VertexIds \ EyeIndexSet :
         At(vertices[1], i) =
           At(Blend(CoeffVector(Text(cycle.frame[1])), exp_bases, mean_shape,
                    NumVertices), i)

(***************************************************************************)
(* C10: the shutdown is ordered and happens: start() closes the connection *)
(* only after it saw the renderer inactive, reports only after the close,  *)
(* and once the renderer is inactive a main thread that has stopped has    *)
(* closed and reported (in the runs where no scene call raises).           *)
(***************************************************************************)
C10_OrderlyShutdown ==
  /\ (conn = "closed") => (~is_active /\ pc \in {"report", "done"})
  /\ (closed_reports > 0) => (conn = "closed" /\ pc = "done" /\ closed_reports = 1)
  /\ (pc \in {"close", "report", "done"}) => ~is_active
  /\ (~is_active /\ pc \in {"done", "crashed"}) => (pc = "done" /\ closed_reports = 1)

(***************************************************************************)
(* The positions of the main thread inside __init__.                       *)
(***************************************************************************)
InitPcs == {"init_base_model", "init_exp_bases", "init_viewer", "init_scene",
            "init_socket", "init_client_thread"}

(***************************************************************************)
(* C11: a failed startup leaves nothing running.  Once construction has    *)
(* ended the process by exit() (the base model names no file, or connect   *)
(* raised), a diagnostic was printed, connect was not called a second      *)
(* time, no viewer is active, the client thread was never started and no   *)
(* cycle of the loop of start() ever ran.                                  *)
(***************************************************************************)
C11_StartupFailureLeavesNothing ==
  /\ connects <= 1
  /\ (pc = "exited") =>
       /\ diag # ""
       /\ ~is_active
       /\ feed_pc = "not_started"
       /\ raw_data = None
       /\ vertices = None /\ ~cycle.read /\ closed_reports = 0
       /\ (diag = "base_model_path") => (connects = 0 /\ scene = << >>)

\* connect was called once and raised: exit() has ended the process
C11_Witness == pc = "exited" /\ diag = "connect" /\ connects = 1

(***************************************************************************)
(* C12: the eye index is optional.  With eye_index_path None or naming no  *)
(* file, construction raises nothing, and once it is over the viewer, the  *)
(* connection and the client thread are set up and eye_index is None.      *)
(***************************************************************************)
C12_EyeIndexOptional ==
  (eye_index_path = None \/ ~eye_index_path[1].exists) =>
    /\ pc # "init_raised"
    /\ (pc \notin InitPcs \cup {"exited"}) =>
         (eye_index = None /\ conn # "none" /\ feed_pc # "not_started")

(***************************************************************************)
(* C13: identity.  For a well-formed frame whose entries 25, 13 and 12 are *)
(* all zero, whatever its other entries, _update_vertices returns the mean *)
(* shape at every vertex outside the EyeIndexSet.                          *)
(***************************************************************************)
ZeroCoeffIds ==
  {f \in WellFormedIds : \A e \in 1..NumExp : CoeffVector(Text(f))[e] = 0}

C13_ZeroFrameIdentity ==
  (Returned /\ CycleRead /\ cycle.frame[1] \in ZeroCoeffIds) =>
    /\ vertices # None
    /\ \A i \in VertexIds \ EyeIndexSet :
         At(vertices[1], i) = At(mean_shape, i)

(***************************************************************************)
(* C14: the scene is changed only under render_lock.  _update_pyrender is  *)
(* at lines 125-128 only while the main thread holds the lock, so whenever *)
(* the viewer holds it (it draws only then) the scene has exactly one face *)
(* node: never none, never two.                                            *)
(***************************************************************************)
C14_MutationExcludesRendering ==
  /\ (pc \in {"remove_node", "new_node", "add_node", "release"}) =>
       render_lock = "main"
  /\ (render_lock = "viewer" /\ pc \notin InitPcs) => Len(scene) = 1

\* the old node is removed and the new one not yet added, under the lock,
\* with the viewer running
C14_Witness ==
  /\ pc \in {"new_node", "add_node"}
  /\ Len(scene) = 0
  /\ render_lock = "main"
  /\ is_active

(***************************************************************************)
(* C15: the fallback to the mean shape lasts only while the bad frame is   *)
(* the latest one.  Once a short or non-numeric frame was delivered and a  *)
(* well-formed one after it, the client thread has published the           *)
(* well-formed frame, the cycles that read it return its deformation, and  *)
(* the main thread has not ended with an exception.                        *)
(***************************************************************************)
\* the deformation of a well-formed frame: the linear blend, and the mean
\* vertex moved back by eye_delta on the EyeIndexSet
Deformation(text) ==
  LET v == Blend(CoeffVector(text), exp_bases, mean_shape, NumVertices)
  IN  [k \in 1..NumVertices |->
         IF (k - 1) \in EyeIndexSet
         THEN [mean_shape[k] EXCEPT ![3] = mean_shape[k][3] - EyeDelta]
         ELSE v[k]]

\* a bad frame was delivered and the latest frame is well-formed
Recovered == had_bad /\ latest # None /\ latest[1] \in WellFormedIds

C15_FallbackIsTransient ==
  Recovered =>
    /\ raw_data = Some(Text(latest[1]))
    /\ pc # "crashed"
    /\ (Returned /\ cycle.read /\ cycle.frame = latest) =>
         vertices = Some(Deformation(Text(latest[1])))

(***************************************************************************)
(* C16: reading the latest frame never blocks and always gives a usable    *)
(* result.  Before the client thread has published anything (raw_data was  *)
(* never assigned) line 103 can be taken at once, and a cycle that ran it  *)
(* then returns the mean shape without raising, builds the mesh of the     *)
(* mean shape and puts exactly that into the scene.                        *)
(***************************************************************************)
\* the running cycle ran line 103 before the first frame was published
CycleBeforeFirstFrame == cycle.read /\ cycle.frame = None

C16_FirstCyclesGiveMeanShape ==
  /\ (pc = "parse" /\ raw_data = None) => ENABLED update_vertices_parse
  /\ CycleBeforeFirstFrame =>
       /\ pc \in {"set_vertices", "from_trimesh", "acquire", "remove_node",
                  "new_node", "add_node", "release"}
       /\ vertices = Some(mean_shape)
       /\ (pc \in {"acquire", "remove_node", "new_node"}) =>
            mesh_tmp = Some(from_trimesh(mean_shape, normal))
       /\ (pc \in {"add_node", "release"}) =>
            node_buf = Node(from_trimesh(mean_shape, normal))
       /\ (pc = "release") => scene = <<node_buf>>

\* such a cycle has put its node into the scene
C16_Witness ==
  /\ CycleBeforeFirstFrame
  /\ raw_data = None
  /\ pc = "release"
  /\ scene = <<Node(from_trimesh(mean_shape, normal))>>

(***************************************************************************)
(* C18: the scene holds one face node.  Once __init__ is over, whenever    *)
(* the main thread does not hold render_lock the scene is exactly the node *)
(* node_buf refers to; and an _update_pyrender that has run to line 128    *)
(* has replaced it by one node that carries the vertices it was given.     *)
(***************************************************************************)
C18_OneFaceNode ==
  /\ (pc \notin InitPcs \cup {"exited", "init_raised"} /\ render_lock # "main")
       => scene = <<node_buf>>
  /\ (pc = "release") =>
       /\ scene = <<node_buf>>
       /\ vertices # None
       /\ node_buf = Node(from_trimesh(vertices[1], normal))

\* an update with deformed vertices is complete and the lock is released
C18_Witness ==
  /\ pc = "while"
  /\ render_lock # "main"
  /\ vertices \notin {None, Some(mean_shape)}
  /\ scene = <<Node(from_trimesh(vertices[1], normal))>>

(***************************************************************************)
(* C17: the model data is immutable after load.  No step changes           *)
(* mean_shape, exp_bases or normal, and eye_index changes only when        *)
(* _init_exp_bases loads it; this through every mix of well-formed         *)
(* frames, malformed frames (whose cycle hands the array of mean_shape     *)
(* itself to the working mesh) and eye corrections.                        *)
(***************************************************************************)
C17_ModelDataImmutable ==
  [][/\ mean_shape' = mean_shape
     /\ exp_bases' = exp_bases
     /\ normal' = normal
     /\ (pc # "init_exp_bases") => (eye_index' = eye_index)]_vars

\* the working mesh holds the array of mean_shape itself (a malformed frame
\* came before), and a cycle has built a deformed shape with its eye
\* vertices corrected
C17_Witness ==
  /\ pc = "set_vertices"
  /\ obj.mesh = "mean_shape"
  /\ obj.vertices = SumArray
  /\ EyeIndexSet # {}
  /\ vertices # Some(mean_shape)

(***************************************************************************)
(* C19: what is written outside render_lock is not what the viewer reads.  *)
(* The positions of a node in the scene are an array of their own: not the *)
(* array of mean_shape, not the one the working mesh holds, not the one    *)
(* _update_vertices returned, not the one line 112 writes; and the mesh    *)
(* built at line 123 is in no node of the scene before line 127, which is  *)
(* run under the lock.                                                     *)
(***************************************************************************)
C19_NodeOwnsPositions ==
  /\ obj.scene \cap {"mean_shape", "mesh0", obj.mesh, obj.vertices, SumArray}
       = {}
  /\ (pc \in {"acquire", "remove_node", "new_node", "add_node"}) =>
       obj.mesh_tmp \notin obj.scene
  /\ (obj.mesh_tmp \in obj.scene) => render_lock = "main"

\* the scene holds an earlier node while the array of mean_shape is in the
\* working mesh (a malformed frame was read) and a new mesh has been built
\* from it
C19_Witness ==
  /\ pc = "acquire"
  /\ obj.mesh = "mean_shape"
  /\ obj.mesh_tmp = "pos"
  /\ obj.scene = {"pos_prev"}
  /\ cycle.sent > 0

====
